---- MODULE Spec2Model ----
(***************************************************************************)
(* PhotoMorphDetector (src/photo_morph_detector.py): detect_morph calls on  *)
(* one path.  The six analyzers run in the order of the dict literal,      *)
(* each decoding the file itself; calculate_morph_score aggregates.  The   *)
(* /morph-detect handler of src/api_server_simple.py wraps one call.       *)
(*                                                                         *)
(* Numbers.  A Python float is an integer count of a fixed unit:           *)
(*   inconsistency scores              1/ScoreScale                        *)
(*   weighted sum                      1/(100*ScoreScale)                  *)
(*   morph_probability (unrounded)     1/(1000*ScoreScale)                 *)
(*   component percentages             1/ScoreScale percent                *)
(*   reported morph_probability        1/1000                              *)
(*   reported percentages              1/10 percent                        *)
(* NaN is the float NaN (numpy statistics of an empty list): arithmetic    *)
(* propagates it and every comparison with it is false.                    *)
(***************************************************************************)
EXTENDS Integers, Sequences, FiniteSets, TLC

VARIABLES file, device, pc, analyses, failed, faults, calls, score, result,
          seen, regions, faulty, previous, changes, morph_detector, response,
          health

vars == <<file, device, pc, analyses, failed, faults, calls, score, result,
          seen, regions, faulty, previous, changes, morph_detector, response,
          health>>

\* ------------------------------------------------------------------ bounds
\* library faults (an exception out of cv2 / numpy / skimage) injected per call
MaxFaults == 1

\* largest height and width of the solid-colour rasters of the gallery
MaxSide == 16

\* detect_morph calls made on the path, one after the other
MaxCalls == 2

\* times the file is removed or replaced while a call is running
MaxChanges == 1

\* /health requests answered
MaxChecks == 2

\* fixed-point unit of a score: 1/700 makes 1/7, 1/2 and 0.45 exact
ScoreScale == 7 * 100
ProbScale == 1000 * ScoreScale

\* ------------------------------------------------------------------ floats
NaN == 0 - 999999999

IsNaN(x) == x = NaN

\* a < b as Python evaluates it: False when either side is NaN
FLt(a, b) == ~IsNaN(a) /\ ~IsNaN(b) /\ a < b

FAdd(a, b) == IF IsNaN(a) \/ IsNaN(b) THEN NaN ELSE a + b

FSub(a, b) == IF IsNaN(a) \/ IsNaN(b) THEN NaN ELSE a - b

\* multiplication by an exact integer factor (a change of unit or a weight)
FMul(a, k) == IF IsNaN(a) THEN NaN ELSE a * k

\* floor division by a positive integer
FDiv(a, k) == IF IsNaN(a) THEN NaN ELSE a \div k

\* builtin min(a, b): b if b < a else a
PyMin(a, b) == IF FLt(b, a) THEN b ELSE a

\* builtin max(a, b): b if b > a else a
PyMax(a, b) == IF FLt(a, b) THEN b ELSE a

PyAbs(x) == IF IsNaN(x) THEN NaN ELSE IF x < 0 THEN 0 - x ELSE x

RECURSIVE ISqrtBetween(_, _, _)
\* lo * lo <= n < hi * hi
ISqrtBetween(n, lo, hi) ==
    IF hi - lo <= 1 THEN lo
    ELSE LET mid == (lo + hi) \div 2
         IN  IF mid * mid <= n THEN ISqrtBetween(n, mid, hi)
             ELSE ISqrtBetween(n, lo, mid)

\* floor of the square root, for 0 <= n < 2^30
ISqrt(n) == ISqrtBetween(n, 0, 32768)

\* round(x, ndigits) of the float x = num/den in the target unit.  round()
\* is exact on the binary value of x; a decimal tie is not representable in
\* general, so the double sits just above or just below it: up chooses.
PyRound(num, den, up) ==
    LET q == num \div den
        r == num % den
    IN  IF IsNaN(num) THEN NaN
        ELSE IF 2 * r < den THEN q
        ELSE IF 2 * r > den THEN q + 1
        ELSE IF up THEN q + 1 ELSE q

\* ------------------------------------------------------------------ images
AnalyzerOrder == <<"compression", "noise", "edge", "lighting", "color", "texture">>

Analyzers == {AnalyzerOrder[k] : k \in 1..Len(AnalyzerOrder)}

\* Per-region statistics as the library calls (DCT, blur, Canny, LAB/HSV
\* conversion, LBP) and numpy's var/std/mean deliver them, one summary per
\* analyzer.  Units: compression 1/100, noise 1, edge 1/1000; lighting,
\* color and texture enter only through the ratio std/mean.
CompressionStats ==
    { [variance |-> 10,  mean |-> 50],      \* mean < 1.0 and variance < 0.5
      [variance |-> 100, mean |-> 200],     \* 0.5 <= variance <= 2.0
      [variance |-> 225, mean |-> 100] }    \* variance > 2.0

NoiseStats ==
    { [std |-> 2,   mean |-> 5],            \* mean < 20
      [std |-> 50,  mean |-> 100],          \* std <= 100
      [std |-> 400, mean |-> 100] }         \* std > 100

EdgeStats ==
    { [std |-> 5,   mean |-> 10],           \* mean < 0.02
      [std |-> 40,  mean |-> 100],          \* 0.01 <= std <= 0.05
      [std |-> 160, mean |-> 490] }         \* std > 0.05

LightingStats ==
    { [std |-> 0, mean |-> 5, gradient |-> 1],
      [std |-> 1, mean |-> 2, gradient |-> 3],
      [std |-> 3, mean |-> 2, gradient |-> 9] }

ColorStats ==
    { [std |-> <<0, 0, 0>>, mean |-> <<4, 4, 4>>],
      [std |-> <<1, 1, 1>>, mean |-> <<2, 2, 2>>],
      [std |-> <<6, 3, 0>>, mean |-> <<2, 2, 2>>] }

TextureStats ==
    { [std |-> 0, mean |-> 5],
      [std |-> 1, mean |-> 2],
      [std |-> 3, mean |-> 2] }

\* a solid-colour raster: every per-region statistic is 0
FlatStats ==
    [compression |-> [variance |-> 0, mean |-> 0],
     noise       |-> [std |-> 0, mean |-> 0],
     edge        |-> [std |-> 0, mean |-> 0],
     lighting    |-> [std |-> 0, mean |-> 0, gradient |-> 0],
     color       |-> [std |-> <<0, 0, 0>>, mean |-> <<0, 0, 0>>],
     texture     |-> [std |-> 0, mean |-> 0]]

PhotoStats ==
    [compression : CompressionStats, noise : NoiseStats, edge : EdgeStats,
     lighting : LightingStats, color : ColorStats, texture : TextureStats]

\* heights and widths of the solid-colour rasters, and of the photographs
FlatDims == {<<3, 3>>, <<5, 16>>, <<8, 8>>, <<24, 32>>}

PhotoDims == {<<24, 32>>}

\* what cv2.imread finds at the path
Images ==
    { [kind |-> "image", h |-> d[1], w |-> d[2], stats |-> FlatStats] : d \in FlatDims }
    \cup
    { [kind |-> "image", h |-> d[1], w |-> d[2], stats |-> s] :
          d \in PhotoDims, s \in PhotoStats }

NoImage == [h |-> 0, w |-> 0, stats |-> FlatStats]

Files ==
    { [kind |-> k, h |-> NoImage.h, w |-> NoImage.w, stats |-> NoImage.stats] :
          k \in {"missing", "garbage"} }
    \cup Images

\* the photographs whose lighting, colour and texture statistics sit on the
\* same level, with the files that hold no photograph
SampleFiles ==
    { f \in Files :
          \/ f.stats = FlatStats
          \/ /\ f.stats.lighting.std = f.stats.texture.std
             /\ f.stats.color.std[2] = f.stats.texture.std }

\* the files of the upload directory: no file, an undecodable one, the
\* solid-colour rasters and three photographs, one per level of statistics
ServerFiles ==
    { f \in SampleFiles :
          \/ f.stats = FlatStats
          \/ <<f.stats.compression.variance, f.stats.noise.std,
               f.stats.edge.std, f.stats.texture.std>>
                 \in {<<10, 2, 5, 0>>, <<100, 50, 40, 1>>, <<225, 400, 160, 3>>} }

\* what an upload under the same name can put in place of the file
Replacements ==
    { f \in ServerFiles :
          f.kind = "image" /\ f.h = 24 /\ f.stats.texture.std \in {0, 3} }

\* the path after the file is deleted
Removed ==
    [kind |-> "missing", h |-> NoImage.h, w |-> NoImage.w, stats |-> NoImage.stats]

\* solid-colour rasters of every height and width up to MaxSide
GalleryFlat ==
    { [kind |-> "image", h |-> h, w |-> w, stats |-> FlatStats] :
          h \in 1..MaxSide, w \in 1..MaxSide }

\* A spliced raster: in every analyzer half of the regions have statistic 0
\* and the other half the same large value L, so the list has mean L/2 and
\* standard deviation L/2 (variance L*L/4).  19x19 gives every analyzer an
\* even number of regions.
SplicedStats ==
    [compression : { [variance |-> 49, mean |-> 70],       \* L = 1.4
                     [variance |-> 225, mean |-> 150] },   \* L = 3.0
     noise       : { [std |-> 20, mean |-> 20],            \* L = 40
                     [std |-> 400, mean |-> 400] },        \* L = 800
     edge        : { [std |-> 20, mean |-> 20],            \* L = 0.04
                     [std |-> 300, mean |-> 300] },        \* L = 0.6
     lighting    : { [std |-> 5, mean |-> 5, gradient |-> 3] },
     color       : { [std |-> <<5, 5, 5>>, mean |-> <<5, 5, 5>>] },
     texture     : { [std |-> 5, mean |-> 5] }]

SplicedDims == {<<19, 19>>}

SplicedImages ==
    { [kind |-> "image", h |-> d[1], w |-> d[2], stats |-> s] :
          d \in SplicedDims, s \in SplicedStats }

\* Photographs with little activity: statistics with a mean or a spread
\* under the thresholds the analyzers compare them with.
LowActivityStats ==
    [compression : { [variance |-> 125, mean |-> 50],      \* mean < 1.0 only
                     [variance |-> 30, mean |-> 150] },    \* variance < 0.5 only
     noise       : { [std |-> 5, mean |-> 30] },
     edge        : { [std |-> 5, mean |-> 100],            \* std < 0.01 only
                     [std |-> 58, mean |-> 10] },          \* mean < 0.02 only
     lighting    : { [std |-> 1, mean |-> 1, gradient |-> 1] },
     color       : { [std |-> <<1, 1, 1>>, mean |-> <<1, 1, 1>>] },
     texture     : { [std |-> 1, mean |-> 1] }]

LowActivityImages ==
    { [kind |-> "image", h |-> d[1], w |-> d[2], stats |-> s] :
          d \in PhotoDims, s \in LowActivityStats }

\* ------------------------------------------------------------------ regions
PyMinInt(a, b) == IF b < a THEN b ELSE a

\* range(0, stop, step) for step > 0
PyRange(stop, step) == { i \in 0..(stop - 1) : i % step = 0 }

\* the two loops running to the edge of the image: range(0, h, step)
Regions_ToEdge(h, w, size, step) == PyRange(h, step) \X PyRange(w, step)

\* the window origins of the two nested loops
Regions(h, w, size, step) == PyRange(h - size, step) \X PyRange(w - size, step)

block_size == 8

\* region_size of each analyzer
region_size(a, h, w) ==
    CASE a = "compression" -> block_size
      [] a = "noise"       -> PyMinInt(h, w) \div 4
      [] a = "edge"        -> PyMinInt(h, w) \div 6
      [] a = "lighting"    -> PyMinInt(h, w) \div 5
      [] a = "color"       -> PyMinInt(h, w) \div 4
      [] a = "texture"     -> PyMinInt(h, w) \div 6

\* every analyzer stepping by half its region size
region_step_HalfEverywhere(a, h, w) == region_size(a, h, w) \div 2

\* third argument of both range() calls
region_step(a, h, w) ==
    IF a = "noise" THEN region_size(a, h, w) \div 2 ELSE region_size(a, h, w)

\* range() raises ValueError for a step of 0
RangeRaises(a, f) == region_step(a, f.h, f.w) = 0

AnalyzerRegions(a, f) ==
    Regions(f.h, f.w, region_size(a, f.h, f.w), region_step(a, f.h, f.w))

\* ---------------------------------------------------------------- analyzers
One == ScoreScale

\* std / (mean + 1e-6) in score units; the 1e-6 decides only when mean is 0
Ratio(d, m) ==
    IF IsNaN(d) \/ IsNaN(m) THEN NaN
    ELSE IF m = 0 THEN d * 1000000
    ELSE (d * ScoreScale) \div m

\* np.sqrt(d / (mean + 1e-6)) * (1 / k) in score units
DampedRatio(d, m, k) ==
    IF m = 0 THEN d * 1000000
    ELSE ISqrt((ScoreScale * ScoreScale * d) \div (k * k * m))

\* cv2.imread returned None, or a call of the try body raised
DecodeRaises(f, fault) == fault \/ f.kind # "image"

\* numpy's var/std/mean over the per-region list: nan for an empty list
RegionStat(a, f, field) ==
    IF AnalyzerRegions(a, f) = {} THEN NaN ELSE f.stats[a][field]

compression_raises(f, fault) == DecodeRaises(f, fault)

compression_body(f) ==
    LET compression_variance == RegionStat("compression", f, "variance")
        compression_mean == RegionStat("compression", f, "mean")
        compression_inconsistency ==
            IF FLt(compression_mean, 100) /\ FLt(compression_variance, 50) THEN 0
            ELSE IF FLt(200, compression_variance)
                 \* 0.3 = 3/10, folded under the root as 9/100
                 THEN PyMin(DampedRatio(9 * compression_variance, 100 * compression_mean, 1), One)
                 ELSE PyMin(FDiv(FMul(compression_variance, ScoreScale), 500), One)
    IN  [compression_inconsistency |-> compression_inconsistency,
         compression_variance |-> compression_variance,
         compression_mean |-> compression_mean]

analyze_image_compression(f, fault) ==
    IF compression_raises(f, fault)
    THEN [compression_inconsistency |-> 0, compression_variance |-> 0,
          compression_mean |-> 0]
    ELSE compression_body(f)

noise_raises(f, fault) == DecodeRaises(f, fault) \/ RangeRaises("noise", f)

noise_body(f) ==
    LET noise_variance_std == RegionStat("noise", f, "std")
        noise_variance_mean == RegionStat("noise", f, "mean")
        noise_inconsistency ==
            IF FLt(noise_variance_mean, 20) THEN 0
            ELSE IF FLt(100, noise_variance_std)
                 THEN PyMin(DampedRatio(noise_variance_std, noise_variance_mean, 5), One)
                 ELSE PyMin(FDiv(FMul(noise_variance_std, ScoreScale), 200), One)
    IN  [noise_inconsistency |-> noise_inconsistency,
         noise_variance_std |-> noise_variance_std,
         noise_variance_mean |-> noise_variance_mean]

\* analyze_noise_patterns whose except branch returns a 10 % default
analyze_noise_patterns_Default10(f, fault) ==
    IF noise_raises(f, fault)
    THEN [noise_inconsistency |-> ScoreScale \div 10, noise_variance_std |-> 0,
          noise_variance_mean |-> 0]
    ELSE noise_body(f)

analyze_noise_patterns(f, fault) ==
    IF noise_raises(f, fault)
    THEN [noise_inconsistency |-> 0, noise_variance_std |-> 0,
          noise_variance_mean |-> 0]
    ELSE noise_body(f)

edge_raises(f, fault) == DecodeRaises(f, fault) \/ RangeRaises("edge", f)

\* edge_body computing the damped ratio in its last branch too
edge_body_AlwaysDamped(f) ==
    LET edge_density_std == RegionStat("edge", f, "std")
        edge_density_mean == RegionStat("edge", f, "mean")
        edge_inconsistency ==
            IF FLt(edge_density_mean, 20) \/ FLt(edge_density_std, 10) THEN 0
            ELSE PyMin(DampedRatio(edge_density_std, edge_density_mean, 4), One)
    IN  [edge_inconsistency |-> edge_inconsistency,
         edge_density_std |-> edge_density_std,
         edge_density_mean |-> edge_density_mean]

edge_body(f) ==
    LET edge_density_std == RegionStat("edge", f, "std")
        edge_density_mean == RegionStat("edge", f, "mean")
        edge_inconsistency ==
            IF FLt(edge_density_mean, 20) \/ FLt(edge_density_std, 10) THEN 0
            ELSE IF FLt(50, edge_density_std)
                 THEN PyMin(DampedRatio(edge_density_std, edge_density_mean, 4), One)
                 ELSE PyMin(FDiv(FMul(edge_density_std, ScoreScale), 100), One)
    IN  [edge_inconsistency |-> edge_inconsistency,
         edge_density_std |-> edge_density_std,
         edge_density_mean |-> edge_density_mean]

analyze_edge_consistency(f, fault) ==
    IF edge_raises(f, fault)
    THEN [edge_inconsistency |-> 0, edge_density_std |-> 0, edge_density_mean |-> 0]
    ELSE edge_body(f)

lighting_raises(f, fault) == DecodeRaises(f, fault) \/ RangeRaises("lighting", f)

\* lighting_body with the damped ratio of the edge analyzer
lighting_body_Damped(f) ==
    LET lighting_variance_std == RegionStat("lighting", f, "std")
        lighting_variance_mean == RegionStat("lighting", f, "mean")
    IN  [lighting_inconsistency |->
             PyMin(DampedRatio(lighting_variance_std, lighting_variance_mean, 4), One),
         lighting_variance_std |-> lighting_variance_std,
         lighting_variance_mean |-> lighting_variance_mean,
         gradient_mean |-> f.stats.lighting.gradient]

lighting_body(f) ==
    LET lighting_variance_std == RegionStat("lighting", f, "std")
        lighting_variance_mean == RegionStat("lighting", f, "mean")
    IN  [lighting_inconsistency |->
             PyMin(Ratio(lighting_variance_std, lighting_variance_mean), One),
         lighting_variance_std |-> lighting_variance_std,
         lighting_variance_mean |-> lighting_variance_mean,
         gradient_mean |-> f.stats.lighting.gradient]

analyze_lighting_consistency(f, fault) ==
    IF lighting_raises(f, fault)
    THEN [lighting_inconsistency |-> 0, lighting_variance_std |-> 0,
          lighting_variance_mean |-> 0, gradient_mean |-> 0]
    ELSE lighting_body(f)

\* np.array([]) has no axis-0 columns: indexing its std raises
color_raises(f, fault) ==
    \/ DecodeRaises(f, fault)
    \/ RangeRaises("color", f)
    \/ AnalyzerRegions("color", f) = {}

color_body(f) ==
    LET color_variance_std == f.stats.color.std
        color_variance_mean == f.stats.color.mean
        ratios == [c \in 1..3 |-> Ratio(color_variance_std[c], color_variance_mean[c])]
    IN  [color_inconsistency |->
             PyMin((ratios[1] + ratios[2] + ratios[3]) \div 3, One),
         hue_variance_std |-> color_variance_std[1],
         saturation_variance_std |-> color_variance_std[2],
         value_variance_std |-> color_variance_std[3]]

analyze_color_consistency(f, fault) ==
    IF color_raises(f, fault)
    THEN [color_inconsistency |-> 0, hue_variance_std |-> 0,
          saturation_variance_std |-> 0, value_variance_std |-> 0]
    ELSE color_body(f)

texture_raises(f, fault) == DecodeRaises(f, fault) \/ RangeRaises("texture", f)

texture_body(f) ==
    LET texture_variance_std == RegionStat("texture", f, "std")
        texture_variance_mean == RegionStat("texture", f, "mean")
    IN  [texture_inconsistency |->
             PyMin(Ratio(texture_variance_std, texture_variance_mean), One),
         texture_variance_std |-> texture_variance_std,
         texture_variance_mean |-> texture_variance_mean]

\* analyze_texture_patterns whose except branch leaves out the score
analyze_texture_patterns_NoScoreOnFailure(f, fault) ==
    IF texture_raises(f, fault)
    THEN [texture_variance_std |-> 0, texture_variance_mean |-> 0]
    ELSE texture_body(f)

analyze_texture_patterns(f, fault) ==
    IF texture_raises(f, fault)
    THEN [texture_inconsistency |-> 0, texture_variance_std |-> 0,
          texture_variance_mean |-> 0]
    ELSE texture_body(f)

\* the analyzer's except branch is taken
Raises(a, f, fault) ==
    CASE a = "compression" -> compression_raises(f, fault)
      [] a = "noise"       -> noise_raises(f, fault)
      [] a = "edge"        -> edge_raises(f, fault)
      [] a = "lighting"    -> lighting_raises(f, fault)
      [] a = "color"       -> color_raises(f, fault)
      [] a = "texture"     -> texture_raises(f, fault)

\* the dict the analyzer returns
Analyze(a, f, fault) ==
    CASE a = "compression" -> analyze_image_compression(f, fault)
      [] a = "noise"       -> analyze_noise_patterns(f, fault)
      [] a = "edge"        -> analyze_edge_consistency(f, fault)
      [] a = "lighting"    -> analyze_lighting_consistency(f, fault)
      [] a = "color"       -> analyze_color_consistency(f, fault)
      [] a = "texture"     -> analyze_texture_patterns(f, fault)

\* --------------------------------------------------------------- aggregation
\* key of the inconsistency score in each analyzer's dict
ScoreKey ==
    [compression |-> "compression_inconsistency", noise |-> "noise_inconsistency",
     edge |-> "edge_inconsistency", lighting |-> "lighting_inconsistency",
     color |-> "color_inconsistency", texture |-> "texture_inconsistency"]

\* key of each analyzer in component_scores
ComponentKey ==
    [compression |-> "compression_artifacts", noise |-> "noise_inconsistency",
     edge |-> "edge_irregularities", lighting |-> "lighting_inconsistency",
     color |-> "color_inconsistency", texture |-> "texture_irregularities"]

ComponentKeys == {ComponentKey[a] : a \in Analyzers}

\* the weights with texture counted against the sum
weights_TextureNegative ==
    [compression |-> 15, noise |-> 15, edge |-> 20, lighting |-> 20,
     color |-> 15, texture |-> 0 - 15]

\* the weights of noise and edge exchanged
weights_Swapped ==
    [compression |-> 15, noise |-> 20, edge |-> 15, lighting |-> 20,
     color |-> 15, texture |-> 15]

\* the weights with 0.10 for texture
weights_Texture10 ==
    [compression |-> 15, noise |-> 15, edge |-> 20, lighting |-> 20,
     color |-> 15, texture |-> 10]

\* the weights, in hundredths
weights ==
    [compression |-> 15, noise |-> 15, edge |-> 20, lighting |-> 20,
     color |-> 15, texture |-> 15]

\* min(analyses[a][key], 1.0)
CappedScore(an, a) == PyMin(an[a][ScoreKey[a]], One)

\* the six products, added left to right; unit 1/(100*ScoreScale)
WeightedSum(an) ==
    LET term(a) == FMul(CappedScore(an, a), weights[a])
    IN  FAdd(FAdd(FAdd(FAdd(FAdd(term("compression"), term("noise")),
                            term("edge")), term("lighting")), term("color")),
             term("texture"))

\* Calibrate without the final factor 0.7
Calibrate_NoShrink(sum) ==
    FMul(PyMax(0, PyMin(FSub(sum, 10 * ScoreScale), 100 * ScoreScale)), 10)

\* Calibrate without the floor at 0
Calibrate_NoFloor(sum) ==
    FMul(PyMin(FSub(sum, 10 * ScoreScale), 100 * ScoreScale), 7)

\* max(0.0, min(sum - 0.1, 1.0)) * 0.7; unit 1/ProbScale
Calibrate(sum) ==
    FMul(PyMax(0, PyMin(FSub(sum, 10 * ScoreScale), 100 * ScoreScale)), 7)

\* Classify with its lower threshold at 0.2
Classify_Band02(p) ==
    IF FLt(FMul(p, 10), 2 * ProbScale) THEN "Real Photo"
    ELSE IF FLt(FMul(p, 10), 7 * ProbScale) THEN "Possibly Morphed"
    ELSE "Likely Morphed"

\* Classify with the 0.3 boundary in the lower band
Classify_BoundaryLow(p) ==
    IF ~FLt(3 * ProbScale, FMul(p, 10)) THEN "Real Photo"
    ELSE IF FLt(FMul(p, 10), 7 * ProbScale) THEN "Possibly Morphed"
    ELSE "Likely Morphed"

Classify(p) ==
    IF FLt(FMul(p, 10), 3 * ProbScale) THEN "Real Photo"
    ELSE IF FLt(FMul(p, 10), 7 * ProbScale) THEN "Possibly Morphed"
    ELSE "Likely Morphed"

\* a subscript of the try body raises KeyError
ScoreRaises(an) ==
    \E a \in Analyzers : a \notin DOMAIN an \/ ScoreKey[a] \notin DOMAIN an[a]

\* calculate_morph_score whose except branch answers 0.5, "Possibly Morphed"
calculate_morph_score_FallbackHalf(an) ==
    IF ScoreRaises(an)
    THEN [morph_probability |-> ProbScale \div 2,
          classification |-> "Possibly Morphed",
          component_scores |-> [k \in ComponentKeys |-> 10 * ScoreScale]]
    ELSE LET morph_probability == Calibrate(WeightedSum(an))
         IN  [morph_probability |-> morph_probability,
              classification |-> Classify(morph_probability),
              component_scores |->
                  [k \in ComponentKeys |->
                      LET a == CHOOSE b \in Analyzers : ComponentKey[b] = k
                      IN  FMul(CappedScore(an, a), 100)]]

calculate_morph_score(an) ==
    IF ScoreRaises(an)
    THEN [morph_probability |-> ProbScale \div 10,
          classification |-> "Real Photo",
          component_scores |-> [k \in ComponentKeys |-> 10 * ScoreScale]]
    ELSE LET morph_probability == Calibrate(WeightedSum(an))
         IN  [morph_probability |-> morph_probability,
              classification |-> Classify(morph_probability),
              component_scores |->
                  [k \in ComponentKeys |->
                      LET a == CHOOSE b \in Analyzers : ComponentKey[b] = k
                      IN  FMul(CappedScore(an, a), 100)]]

\* -------------------------------------------------------------- detect_morph
\* Certainty with both comparisons non-strict
Certainty_Inclusive(p) ==
    LET distance == PyAbs(FSub(FMul(p, 2), ProbScale))
    IN  IF ~FLt(FMul(distance, 10), 6 * ProbScale) THEN "High"
        ELSE IF ~FLt(FMul(distance, 100), 30 * ProbScale) THEN "Medium"
        ELSE "Low"

\* abs(p - 0.5) > 0.3, > 0.15, doubled to stay in integers
Certainty(p) ==
    LET distance == PyAbs(FSub(FMul(p, 2), ProbScale))
    IN  IF FLt(6 * ProbScale, FMul(distance, 10)) THEN "High"
        ELSE IF FLt(30 * ProbScale, FMul(distance, 100)) THEN "Medium"
        ELSE "Low"

name == "Photo Morph Detector"

\* the dict detect_morph returns after the six analyses; up[k] is the side
\* of a decimal tie on which the k-th rounded double lies
Report(an, sc, dev, up) ==
    LET morph_probability == sc.morph_probability
        morph_percentage == FMul(morph_probability, 1000)
        real_percentage == FMul(FSub(ProbScale, morph_probability), 1000)
    IN  [success |-> TRUE,
         prediction |-> sc.classification,
         morph_probability |-> PyRound(FMul(morph_probability, 1000), ProbScale, up[1]),
         morph_percentage |-> PyRound(morph_percentage, ProbScale, up[2]),
         real_percentage |-> PyRound(real_percentage, ProbScale, up[3]),
         certainty |-> Certainty(morph_probability),
         component_scores |-> sc.component_scores,
         detailed_analysis |-> an,
         model_used |-> name,
         device |-> dev,
         method |-> "multi-analysis"]

NotFound == [success |-> FALSE, error |-> "Image not found"]

\* no value yet
None == [none |-> TRUE]

Init ==
    /\ file \in Files
    /\ device \in {"cuda", "cpu"}
    /\ pc = "call"
    /\ analyses = << >>
    /\ failed = {}
    /\ faults = 0
    /\ calls = << >>
    /\ score = None
    /\ result = None
    /\ seen = << >>
    /\ regions = << >>
    /\ faulty = {}
    /\ previous = << >>
    /\ changes = 0
    /\ morph_detector = TRUE
    /\ response = None
    /\ health = << >>

\* DetectMorphBegin without the existence check
DetectMorphBegin_NoExistsCheck ==
    /\ pc = "call"
    /\ pc' = AnalyzerOrder[1]
    /\ UNCHANGED <<health, file, device, analyses, failed, faults, calls, score, result,
                   seen, regions, faulty, previous, changes, morph_detector,
                   response>>

\* if not Path(image_path).exists(): return {...}
DetectMorphBegin ==
    /\ pc = "call"
    /\ IF file.kind = "missing"
       THEN pc' = "done" /\ result' = NotFound
       ELSE pc' = AnalyzerOrder[1] /\ result' = result
    /\ UNCHANGED <<health, file, device, analyses, failed, faults, calls, score,
                   seen, regions, faulty, previous, changes, morph_detector,
                   response>>

\* the analyses dict literal without its 'texture' entry
NextPc_SkipTexture(a) ==
    LET k == CHOOSE i \in 1..Len(AnalyzerOrder) : AnalyzerOrder[i] = a
    IN  IF k >= Len(AnalyzerOrder) - 1 THEN "score" ELSE AnalyzerOrder[k + 1]

NextPc(a) ==
    LET k == CHOOSE i \in 1..Len(AnalyzerOrder) : AnalyzerOrder[i] = a
    IN  IF k = Len(AnalyzerOrder) THEN "score" ELSE AnalyzerOrder[k + 1]

\* A library call raises because of what the raster holds: an analyzer that
\* ran on this file in an earlier call raises now where it raised then.
SameFaults(a, fault) ==
    \A k \in 1..Len(previous) :
        (previous[k].file = file /\ a \in DOMAIN previous[k].analyses)
            => (fault <=> a \in previous[k].faulty)

\* the two nested loops of the analyzer were entered
LoopsRan(a, f, fault) == ~DecodeRaises(f, fault) /\ ~RangeRaises(a, f)

\* a noise analyzer that returns the default dict when the compression
\* analyzer has already left its result
AnalyzerCall_NoiseAfterCompression(a) ==
    /\ \E fault \in BOOLEAN :
          /\ fault => faults < MaxFaults
          /\ SameFaults(a, fault)
          /\ analyses' =
                (a :> IF a = "noise" /\ "compression" \in DOMAIN analyses
                      THEN Analyze(a, Removed, FALSE)
                      ELSE Analyze(a, file, fault)) @@ analyses
          /\ failed' = IF Raises(a, file, fault) THEN failed \cup {a} ELSE failed
          /\ faults' = IF fault THEN faults + 1 ELSE faults
          /\ faulty' = IF fault THEN faulty \cup {a} ELSE faulty
          /\ regions' = IF LoopsRan(a, file, fault)
                         THEN (a :> AnalyzerRegions(a, file)) @@ regions
                         ELSE regions
    /\ seen' = (a :> file) @@ seen
    /\ calls' = Append(calls, a)
    /\ UNCHANGED <<health, file, device, score, result, previous, changes,
                   morph_detector, response>>

\* self.analyze_*(image_path): the call reads the path and nothing else
AnalyzerCall(a) ==
    /\ \E fault \in BOOLEAN :
          /\ fault => faults < MaxFaults
          /\ SameFaults(a, fault)
          /\ analyses' = (a :> Analyze(a, file, fault)) @@ analyses
          /\ failed' = IF Raises(a, file, fault) THEN failed \cup {a} ELSE failed
          /\ faults' = IF fault THEN faults + 1 ELSE faults
          /\ faulty' = IF fault THEN faulty \cup {a} ELSE faulty
          /\ regions' = IF LoopsRan(a, file, fault)
                         THEN (a :> AnalyzerRegions(a, file)) @@ regions
                         ELSE regions
    /\ seen' = (a :> file) @@ seen
    /\ calls' = Append(calls, a)
    /\ UNCHANGED <<health, file, device, score, result, previous, changes,
                   morph_detector, response>>

\* one entry of the analyses dict literal
RunAnalyzer(a) ==
    /\ pc = a
    /\ AnalyzerCall(a)
    /\ pc' = NextPc(a)

RunCompression == RunAnalyzer("compression")

RunNoise == RunAnalyzer("noise")

RunEdge == RunAnalyzer("edge")

RunLighting == RunAnalyzer("lighting")

RunColor == RunAnalyzer("color")

RunTexture == RunAnalyzer("texture")

\* round() is a function of its argument: a probability that an earlier call
\* rounded is rounded to the same three numbers now
SameRounding(sc, r) ==
    \A k \in 1..Len(previous) :
        previous[k].score = sc =>
            /\ r.morph_probability = previous[k].result.morph_probability
            /\ r.morph_percentage = previous[k].result.morph_percentage
            /\ r.real_percentage = previous[k].result.real_percentage

\* calculate_morph_score, the percentages, the certainty and the result dict
DetectMorphFinish ==
    /\ pc = "score"
    /\ score' = calculate_morph_score(analyses)
    /\ \E up \in [1..3 -> BOOLEAN] :
          /\ SameRounding(score', Report(analyses, score', device, up))
          /\ result' = Report(analyses, score', device, up)
    /\ calls' = Append(calls, "calculate_morph_score")
    /\ pc' = "done"
    /\ UNCHANGED <<health, file, device, analyses, failed, faults, seen, regions,
                   faulty, previous, changes, morph_detector, response>>

Next ==
    \/ DetectMorphBegin
    \/ RunCompression
    \/ RunNoise
    \/ RunEdge
    \/ RunLighting
    \/ RunColor
    \/ RunTexture
    \/ DetectMorphFinish

Spec == Init /\ [][Next]_vars

\* a detector and a path holding one of fs, before the first call
Start(fs) ==
    /\ file \in fs
    /\ device \in {"cuda", "cpu"}
    /\ analyses = << >>
    /\ failed = {}
    /\ faults = 0
    /\ calls = << >>
    /\ score = None
    /\ result = None
    /\ seen = << >>
    /\ regions = << >>
    /\ faulty = {}
    /\ previous = << >>
    /\ changes = 0
    /\ response = None
    /\ health = << >>

\* self.device of a detector constructed later on the same host
NewDevice == IF device = "cuda" THEN "cuda" ELSE "cpu"

\* CallAgain whose new instance always runs on the cpu
CallAgain_CpuInstance ==
    /\ pc = "done"
    /\ Len(previous) + 1 < MaxCalls
    /\ previous' = Append(previous, [file |-> file, analyses |-> analyses,
                                     faulty |-> faulty, score |-> score,
                                     result |-> result])
    /\ device' = "cpu"
    /\ pc' = "call"
    /\ analyses' = << >> /\ failed' = {} /\ faults' = 0 /\ calls' = << >>
    /\ score' = None /\ result' = None
    /\ seen' = << >> /\ regions' = << >> /\ faulty' = {}
    /\ UNCHANGED <<health, file, changes, morph_detector, response>>

\* the next detect_morph call on the path, by the same instance or by a new
\* one: the locals of the finished call are gone, self.device is what
\* __init__ set
CallAgain ==
    /\ pc = "done"
    /\ Len(previous) + 1 < MaxCalls
    /\ previous' = Append(previous, [file |-> file, analyses |-> analyses,
                                     faulty |-> faulty, score |-> score,
                                     result |-> result])
    /\ \E instance \in {"same", "new"} :
          device' = IF instance = "new" THEN NewDevice ELSE device
    /\ pc' = "call"
    /\ analyses' = << >> /\ failed' = {} /\ faults' = 0 /\ calls' = << >>
    /\ score' = None /\ result' = None
    /\ seen' = << >> /\ regions' = << >> /\ faulty' = {}
    /\ UNCHANGED <<health, file, changes, morph_detector, response>>

NextTwice == Next \/ CallAgain

InitTwice == Start(SampleFiles) /\ pc = "call" /\ morph_detector = TRUE

\* MaxCalls detect_morph calls on one unchanged file
SpecTwice == InitTwice /\ [][NextTwice]_vars

\* ------------------------------------------- the six analyzers in any order
\* no file, an undecodable file, a raster too small for any region and a
\* photograph
OrderFiles ==
    { f \in ServerFiles :
          \/ f.kind # "image"
          \/ f.h = 3
          \/ f.stats.texture.std = 1 }

\* the call in the order of the source is followed by one call of the same
\* detect_morph with the entries of its dict literal dispatched in any order
CallAgainAnyOrder ==
    /\ pc = "done"
    /\ previous = << >>
    /\ previous' = Append(previous, [file |-> file, analyses |-> analyses,
                                     faulty |-> faulty, score |-> score,
                                     result |-> result])
    /\ pc' = "recall"
    /\ analyses' = << >> /\ failed' = {} /\ faults' = 0 /\ calls' = << >>
    /\ score' = None /\ result' = None
    /\ seen' = << >> /\ regions' = << >> /\ faulty' = {}
    /\ UNCHANGED <<health, file, device, changes, morph_detector, response>>

\* the existence check of a call made after the first
BeginAnyOrder ==
    /\ pc = "recall"
    /\ IF file.kind = "missing"
       THEN pc' = "done" /\ result' = NotFound
       ELSE pc' = "dispatch" /\ result' = result
    /\ UNCHANGED <<health, file, device, analyses, failed, faults, calls, score,
                   seen, regions, faulty, previous, changes, morph_detector,
                   response>>

\* calculate_morph_score is called with the completed dict
Joined(an) == DOMAIN an = Analyzers

\* any analyzer that has not run yet runs next
RunInAnyOrder ==
    /\ pc = "dispatch"
    /\ \E a \in Analyzers \ DOMAIN analyses : AnalyzerCall(a)
    /\ pc' = IF Joined(analyses') THEN "score" ELSE "dispatch"

NextAnyOrder == Next \/ CallAgainAnyOrder \/ BeginAnyOrder \/ RunInAnyOrder

InitAnyOrder == Start(OrderFiles) /\ pc = "call" /\ morph_detector = TRUE

\* a call in the order of the source, then calls in any order, on one file
SpecAnyOrder == InitAnyOrder /\ [][NextAnyOrder]_vars

\* ---------------------------------------------------- calculate_morph_score
\* the scores handed to calculate_morph_score: 0.0, 1/7, 0.5, 1.0 and 2.0
ScoreInputs == {0, One \div 7, One \div 2, One, 2 * One}

\* analyses dicts holding any six of these scores
ScoreDicts ==
    { [a \in Analyzers |-> (ScoreKey[a] :> sc[a])] : sc \in [Analyzers -> ScoreInputs] }

\* the dicts whose scores are what an analyzer can return: min(..., 1.0)
AnalyzerDicts ==
    { an \in ScoreDicts : \A a \in Analyzers : an[a][ScoreKey[a]] <= One }

\* calculate_morph_score called on its own with any dict, or detect_morph
\* after its six analyzers have returned
InitScore ==
    /\ \/ analyses \in ScoreDicts /\ pc = "aggregate"
       \/ analyses \in AnalyzerDicts /\ pc = "score"
    /\ file = Removed
    /\ device = "cpu"
    /\ failed = {}
    /\ faults = 0
    /\ calls = << >>
    /\ score = None
    /\ result = None
    /\ seen = << >>
    /\ regions = << >>
    /\ faulty = {}
    /\ previous = << >>
    /\ changes = 0
    /\ morph_detector = TRUE
    /\ response = None
    /\ health = << >>

\* self.calculate_morph_score(analyses)
CalculateMorphScore ==
    /\ pc = "aggregate"
    /\ score' = calculate_morph_score(analyses)
    /\ calls' = Append(calls, "calculate_morph_score")
    /\ pc' = "aggregated"
    /\ UNCHANGED <<health, file, device, analyses, failed, faults, result, seen, regions,
                   faulty, previous, changes, morph_detector, response>>

NextScore == CalculateMorphScore \/ DetectMorphFinish

\* calculate_morph_score, and the rest of detect_morph, applied to any six
\* scores
SpecScore == InitScore /\ [][NextScore]_vars

\* dicts of scores 0.0 and 1.0
PlainDicts ==
    { an \in ScoreDicts : \A a \in Analyzers : an[a][ScoreKey[a]] \in {0, One} }

\* a dict one of whose results lacks its inconsistency key, or which lacks
\* one analyzer's entry
BrokenDicts ==
    { [an EXCEPT ![a] = [k \in DOMAIN an[a] \ {ScoreKey[a]} |-> an[a][k]]] :
          an \in PlainDicts, a \in Analyzers }
    \cup
    { [b \in Analyzers \ {a} |-> an[b]] : an \in PlainDicts, a \in Analyzers }

InitFallback ==
    /\ analyses \in PlainDicts \cup BrokenDicts
    /\ pc = "aggregate"
    /\ file = Removed
    /\ device = "cpu"
    /\ failed = {}
    /\ faults = 0
    /\ calls = << >>
    /\ score = None
    /\ result = None
    /\ seen = << >>
    /\ regions = << >>
    /\ faulty = {}
    /\ previous = << >>
    /\ changes = 0
    /\ morph_detector = TRUE
    /\ response = None
    /\ health = << >>

\* calculate_morph_score applied to dicts its try body cannot read
SpecFallback == InitFallback /\ [][CalculateMorphScore]_vars

\* dicts of scores 0.0, 0.5 and 1.0
LevelDicts ==
    { an \in ScoreDicts : \A a \in Analyzers : an[a][ScoreKey[a]] \in {0, One \div 2, One} }

\* calculate_morph_score is called again, with a dict none of whose scores
\* is lower than in the first call
RaiseScores ==
    /\ pc = "aggregated"
    /\ previous = << >>
    /\ previous' = <<[file |-> file, analyses |-> analyses, faulty |-> faulty,
                      score |-> score, result |-> result]>>
    /\ \E an \in LevelDicts :
          /\ \A a \in Analyzers : analyses[a][ScoreKey[a]] <= an[a][ScoreKey[a]]
          /\ analyses' = an
    /\ score' = None
    /\ calls' = << >>
    /\ pc' = "aggregate"
    /\ UNCHANGED <<health, file, device, failed, faults, result, seen, regions, faulty,
                   changes, morph_detector, response>>

InitMonotone ==
    /\ analyses \in LevelDicts
    /\ pc = "aggregate"
    /\ file = Removed
    /\ device = "cpu"
    /\ failed = {}
    /\ faults = 0
    /\ calls = << >>
    /\ score = None
    /\ result = None
    /\ seen = << >>
    /\ regions = << >>
    /\ faulty = {}
    /\ previous = << >>
    /\ changes = 0
    /\ morph_detector = TRUE
    /\ response = None
    /\ health = << >>

NextMonotone == CalculateMorphScore \/ RaiseScores

\* calculate_morph_score applied to a dict and then to a dict that is
\* nowhere lower
SpecMonotone == InitMonotone /\ [][NextMonotone]_vars

\* ------------------------------------------------------------ /morph-detect
\* the file is deleted while a detect_morph call is between its existence
\* check and its last imread
RemoveFile ==
    /\ pc \in {"call"} \cup Analyzers
    /\ changes < MaxChanges
    /\ file.kind # "missing"
    /\ file' = Removed
    /\ changes' = changes + 1
    /\ UNCHANGED <<health, device, pc, analyses, failed, faults, calls, score, result,
                   seen, regions, faulty, previous, morph_detector, response>>

\* another upload overwrites the file in the same window
ReplaceFile ==
    /\ pc \in {"call"} \cup Analyzers
    /\ changes < MaxChanges
    /\ \E new \in Replacements \ {file} : file' = new
    /\ changes' = changes + 1
    /\ UNCHANGED <<health, device, pc, analyses, failed, faults, calls, score, result,
                   seen, regions, faulty, previous, morph_detector, response>>

HTTPException(status_code, detail) ==
    [type |-> "HTTPException", status_code |-> status_code, detail |-> detail]

\* any exception that is not an HTTPException
Exception == [type |-> "Exception", status_code |-> 0, detail |-> "error"]

\* the handler without its "except HTTPException: raise" clause
Rethrow_AllAs500(exc) == HTTPException(500, exc.detail)

\* the two except clauses of the handler
Rethrow(exc) ==
    IF exc.type = "HTTPException" THEN exc ELSE HTTPException(500, exc.detail)

\* what the client receives when the try body raised exc
Error(exc) ==
    [status_code |-> Rethrow(exc).status_code, detail |-> Rethrow(exc).detail,
     raised |-> exc.status_code]

\* what the client receives when the handler returned body
Return(body) == [status_code |-> 200, body |-> body, raised |-> 0]

\* the response dict built from a success report
RealResponse(r) ==
    [success |-> TRUE,
     prediction |-> r.prediction,
     morph_probability |-> r.morph_probability,
     morph_percentage |-> r.morph_percentage,
     real_percentage |-> r.real_percentage,
     certainty |-> r.certainty,
     component_scores |-> r.component_scores,
     detailed_analysis |-> r.detailed_analysis,
     model_used |-> r.model_used,
     device |-> r.device,
     method |-> r.method,
     detection_type |-> "real"]

\* the fixed dict returned when morph_detector is None
Simulated ==
    [success |-> TRUE,
     prediction |-> "Real Photo",
     morph_probability |-> 250,
     morph_percentage |-> 250,
     real_percentage |-> 750,
     certainty |-> "Medium",
     component_scores |->
         [compression_artifacts |-> 20 * ScoreScale,
          noise_inconsistency |-> 15 * ScoreScale,
          edge_irregularities |-> 25 * ScoreScale,
          lighting_inconsistency |-> 30 * ScoreScale,
          color_inconsistency |-> 20 * ScoreScale,
          texture_irregularities |-> 15 * ScoreScale],
     model_used |-> "simulated",
     device |-> "cpu",
     method |-> "simulation",
     detection_type |-> "simulated"]

\* morph_detect_endpoint up to the detect_morph call; get_image_path finds
\* the file, finds none, or raises out of Path.exists
MorphDetectRequest ==
    /\ pc = "request"
    /\ \E raises \in BOOLEAN :
          IF raises
          THEN response' = Error(Exception) /\ pc' = "responded"
          ELSE IF file.kind = "missing"
          THEN response' = Error(HTTPException(404, "Image not found"))
               /\ pc' = "responded"
          ELSE IF morph_detector
          THEN response' = response /\ pc' = "call"
          ELSE response' = Return(Simulated) /\ pc' = "responded"
    /\ UNCHANGED <<health, file, device, analyses, failed, faults, calls, score, result,
                   seen, regions, faulty, previous, changes, morph_detector>>

\* morph_detect_endpoint after detect_morph returned
MorphDetectRespond ==
    /\ pc = "done"
    /\ response = None
    /\ response' = IF result.success
                    THEN Return(RealResponse(result))
                    ELSE Error(HTTPException(500, result.error))
    /\ pc' = "responded"
    /\ UNCHANGED <<health, file, device, analyses, failed, faults, calls, score, result,
                   seen, regions, faulty, previous, changes, morph_detector>>

\* the entries of the /health body the detector decides
HealthBody(detector) ==
    [status |-> "healthy",
     components |-> [smart_cropper |-> TRUE, outpainter |-> TRUE,
                     morph_detector |-> detector]]

\* health_check listing the detector like smart_cropper and outpainter
HealthCheck_AlwaysAvailable ==
    /\ \/ pc = "request" /\ health = << >>
       \/ pc = "responded" /\ Len(health) < MaxChecks
    /\ health' = Append(health, Return(HealthBody(TRUE)))
    /\ UNCHANGED <<file, device, pc, analyses, failed, faults, calls, score,
                   result, seen, regions, faulty, previous, changes,
                   morph_detector, response>>

\* health_check, answered before the /morph-detect request or after it: the
\* handlers are coroutines without an await, one runs at a time
HealthCheck ==
    /\ \/ pc = "request" /\ health = << >>
       \/ pc = "responded" /\ Len(health) < MaxChecks
    /\ health' = Append(health, Return(HealthBody(morph_detector)))
    /\ UNCHANGED <<file, device, pc, analyses, failed, faults, calls, score,
                   result, seen, regions, faulty, previous, changes,
                   morph_detector, response>>

NextServer ==
    \/ MorphDetectRequest
    \/ Next
    \/ MorphDetectRespond
    \/ RemoveFile
    \/ ReplaceFile
    \/ HealthCheck

InitServer == Start(ServerFiles) /\ pc = "request" /\ morph_detector \in BOOLEAN

\* one /morph-detect request while uploads and deletions go on
SpecServer == InitServer /\ [][NextServer]_vars

\* the images the partition and the floors of the analyzers are tried on
Gallery == GalleryFlat \cup SplicedImages \cup LowActivityImages

InitGallery == Start(Gallery) /\ pc = "call" /\ morph_detector = TRUE

\* one detect_morph call on a gallery image
SpecGallery == InitGallery /\ [][Next]_vars

\* ==================================================================== claims
Done == pc = "done"

Success == Done /\ result.success

\* the call ran on a file that decodes
Decodable == file.kind = "image"

\* the analyzer's loops ran and collected no region
ZeroRegions(a) ==
    /\ Decodable
    /\ a \notin failed
    /\ ~RangeRaises(a, file)
    /\ AnalyzerRegions(a, file) = {}

\* C1: for an existing decodable image the reported morph_probability lies in
\* [0,1], whatever mix of normal scores, caught failures and empty partitions
\* the six analyzers produced.
C1_ProbabilityInUnitInterval ==
    (Done /\ Decodable) =>
        /\ result.success
        /\ result.morph_probability \in 0..1000
        /\ score.morph_probability \in 0..ProbScale

\* a report built from a NaN score (empty partition), a caught failure and
\* normal scores
C1_Witness ==
    /\ Success /\ Decodable
    /\ ZeroRegions("compression")
    /\ failed # {} /\ failed # Analyzers \ {"compression"}
    /\ result.morph_probability = 0

ZeroDict(a) == [k \in DOMAIN analyses[a] |-> 0]

\* weighted sum over the analyzers of A only; unit 1/(100*ScoreScale)
RECURSIVE SumOver(_)
SumOver(A) ==
    IF A = {} THEN 0
    ELSE LET a == CHOOSE b \in A : TRUE
             s == analyses[a][ScoreKey[a]]
             capped == IF IsNaN(s) THEN NaN ELSE IF s > ScoreScale THEN ScoreScale ELSE s
         IN  FAdd(FMul(capped, weights[a]), SumOver(A \ {a}))

\* 0.7 * max(0, sum - 0.1), and 0 for a NaN sum; unit 1/ProbScale
Calibrated(sum) ==
    IF IsNaN(sum) THEN 0
    ELSE IF sum - 10 * ScoreScale > 0 THEN 7 * (sum - 10 * ScoreScale) ELSE 0

C3_ZeroRegionsNeutral ==
    Done =>
        \A a \in Analyzers :
            ZeroRegions(a) =>
                /\ result.success
                /\ result.detailed_analysis[a][ScoreKey[a]] = 0

\* C4: a path that exists but does not decode gives success:false.
C4_UndecodableFailsFast ==
    (Done /\ file.kind = "garbage") => ~result.success

\* C5: a missing path gives success:false with only an error message, and no
\* analyzer and no aggregation is ever invoked for it.
C5_MissingPathFailsFast ==
    file.kind = "missing" =>
        /\ calls = << >>
        /\ analyses = << >>
        /\ score = None
        /\ Done => (~result.success /\ DOMAIN result = {"success", "error"})
        /\ pc \in {"call", "done"}

C5_Witness == Done /\ file.kind = "missing" /\ result = NotFound

\* C6: a finished call returned one of two shapes, the error shape or the
\* full report with all its keys, nothing in between; an existing decodable
\* image always gets the full report.
C6_TwoShapes ==
    /\ ~Done => result = None
    /\ Done =>
          \/ /\ result.success = FALSE
             /\ DOMAIN result = {"success", "error"}
          \/ /\ result.success = TRUE
             /\ "error" \notin DOMAIN result
             /\ {"prediction", "morph_probability", "morph_percentage",
                 "real_percentage", "certainty", "component_scores",
                 "detailed_analysis"} \subseteq DOMAIN result
             /\ result.prediction \in {"Real Photo", "Possibly Morphed", "Likely Morphed"}
             /\ result.certainty \in {"High", "Medium", "Low"}
             /\ DOMAIN result.component_scores =
                    {"compression_artifacts", "noise_inconsistency",
                     "edge_irregularities", "lighting_inconsistency",
                     "color_inconsistency", "texture_irregularities"}
             /\ DOMAIN result.detailed_analysis =
                    {"compression", "noise", "edge", "lighting", "color", "texture"}
    /\ (Done /\ Decodable) => result.success = TRUE

\* the most degenerate decodable image (3x3: five analyzers raise, the sixth
\* has no region) still gets the full report
C6_Witness ==
    /\ Success /\ Decodable
    /\ failed = Analyzers \ {"compression"}
    /\ faults = 0
    /\ DOMAIN result.detailed_analysis = Analyzers

\* C7: the verdict is decided by the calibrated probability p alone:
\* p < 0.3 Real Photo, 0.3 <= p < 0.7 Possibly Morphed, p >= 0.7 Likely
\* Morphed, each boundary in the upper band.
C7_ClassificationBands ==
    Success =>
        LET p10 == 10 * score.morph_probability
        IN  /\ result.prediction = score.classification
            /\ p10 < 3 * ProbScale => result.prediction = "Real Photo"
            /\ (3 * ProbScale <= p10 /\ p10 < 7 * ProbScale) =>
                   result.prediction = "Possibly Morphed"
            /\ p10 >= 7 * ProbScale => result.prediction = "Likely Morphed"

\* a report whose probability is exactly 0.3
C7_Witness ==
    /\ Success
    /\ 10 * score.morph_probability = 3 * ProbScale
    /\ result.prediction = "Possibly Morphed"

\* min(score, 1.0) of analyzer a as the report's detailed_analysis has it
Capped(a) ==
    LET s == result.detailed_analysis[a][ScoreKey[a]]
    IN  IF IsNaN(s) THEN NaN ELSE IF s > ScoreScale THEN ScoreScale ELSE s

\* C8: the calibrated probability is 0.7 * max(0, S - 0.1) with S the sum of
\* the six capped scores weighted 0.15, 0.15, 0.20, 0.20, 0.15, 0.15; the
\* calibration is applied to the sum only.  (With a NaN score S is NaN and
\* Python's max(0, nan) is 0.)
C8_CalibratedProbability ==
    Success =>
        LET anyNaN == \E a \in Analyzers : IsNaN(Capped(a))
            S == 15 * Capped("compression") + 15 * Capped("noise")
                 + 20 * Capped("edge") + 20 * Capped("lighting")
                 + 15 * Capped("color") + 15 * Capped("texture")
            excess == S - 10 * ScoreScale
        IN  IF anyNaN THEN score.morph_probability = 0
            ELSE score.morph_probability = 7 * (IF excess > 0 THEN excess ELSE 0)

\* all six analyzers contribute a nonzero score and the sum exceeds 0.1
C8_Witness ==
    /\ Success
    /\ failed = {}
    /\ \A a \in Analyzers : Capped(a) > 0
    /\ score.morph_probability > 0

\* C9: each component percentage of a success report lies in [0,100] and is
\* 100 times the analyzer's own uncalibrated score capped at 1.
C9_ComponentPercentages ==
    (Success /\ Decodable) =>
        \A a \in Analyzers :
            LET c == result.component_scores[ComponentKey[a]]
            IN  /\ c >= 0
                /\ c <= 100 * ScoreScale
                /\ ~IsNaN(Capped(a))
                /\ c = 100 * Capped(a)

\* C10: in a success report real_percentage + morph_percentage is 100.
C10_PercentagesSumTo100 ==
    Success => result.morph_percentage + result.real_percentage = 1000

\* C11: when the height and the width of the image are exact multiples of an
\* analyzer's region size g, the analyzer's loops produce exactly
\* (rows/g) * (cols/g) regions.
C11_RegionCount ==
    \A a \in DOMAIN regions :
        LET f == seen[a]
            g == region_size(a, f.h, f.w)
        IN  (f.h % g = 0 /\ f.w % g = 0) =>
                Cardinality(regions[a]) = (f.h \div g) * (f.w \div g)

\* C12: every region an analyzer produces is a full size x size window that
\* lies entirely inside the image it decoded, for every height and width: a
\* trailing partial strip is dropped, never padded or truncated.
C12_FullWindows ==
    \A a \in DOMAIN regions :
        LET f == seen[a]
            size == region_size(a, f.h, f.w)
        IN  \A r \in regions[a] :
                /\ r[1] >= 0 /\ r[1] + size <= f.h
                /\ r[2] >= 0 /\ r[2] + size <= f.w

\* a finished call in which an analyzer produced regions on an image whose
\* height and width both leave a partial strip
C12_Witness ==
    /\ Success
    /\ \E a \in DOMAIN regions :
           LET size == region_size(a, seen[a].h, seen[a].w)
           IN  /\ Cardinality(regions[a]) > 1
               /\ seen[a].h % size # 0
               /\ seen[a].w % size # 0

C14_UniformImage ==
    (Done /\ Decodable /\ file.stats = FlatStats) =>
        /\ result.success
        /\ \A a \in Analyzers : result.detailed_analysis[a][ScoreKey[a]] = 0
        /\ result.prediction = "Real Photo"
        /\ result.morph_probability <= 100

\* every analyzer's statistics are those of a list that is half 0 and half
\* one large value: spread = mean, at or above the analyzer's floors
HalfSplit(f) ==
    /\ f.kind = "image"
    /\ f.stats.compression.mean > 0
    /\ 100 * f.stats.compression.variance = f.stats.compression.mean * f.stats.compression.mean
    /\ f.stats.noise.mean >= 20 /\ f.stats.noise.std = f.stats.noise.mean
    /\ f.stats.edge.mean >= 20 /\ f.stats.edge.std = f.stats.edge.mean
    /\ f.stats.lighting.mean > 0 /\ f.stats.lighting.std = f.stats.lighting.mean
    /\ \A c \in 1..3 : f.stats.color.mean[c] > 0 /\ f.stats.color.std[c] = f.stats.color.mean[c]
    /\ f.stats.texture.mean > 0 /\ f.stats.texture.std = f.stats.texture.mean

\* C15: on a spliced image (half of the regions with statistic 0, the other
\* half with a large one) the lighting, color and edge scores are above the
\* 0.0 of the flat image and the verdict is "Possibly Morphed" or "Likely
\* Morphed", not "Real Photo".
C15_SplicedImage ==
    (Success /\ HalfSplit(file) /\ failed = {}) =>
        /\ result.detailed_analysis.lighting.lighting_inconsistency > 0
        /\ result.detailed_analysis.color.color_inconsistency > 0
        /\ result.detailed_analysis.edge.edge_inconsistency > 0
        /\ result.prediction \in {"Possibly Morphed", "Likely Morphed"}

\* the spliced image with the smallest scores: compression still 0.0, noise
\* 0.1, edge 0.2, and the verdict already "Possibly Morphed"
C15_Witness ==
    /\ Success /\ HalfSplit(file) /\ failed = {}
    /\ result.detailed_analysis.compression.compression_inconsistency = 0
    /\ 10 * result.detailed_analysis.noise.noise_inconsistency = One
    /\ 5 * result.detailed_analysis.edge.edge_inconsistency = One
    /\ result.detailed_analysis.lighting.lighting_inconsistency = One
    /\ result.prediction = "Possibly Morphed"

\* C16: within one detect_morph call the image is decoded exactly once and
\* all six analyzers compute on that one raster, so that replacing or
\* removing the file after the call started cannot make two analyzers of the
\* same report see different contents.
C16_DecodedOnce ==
    (result # None /\ result.success) =>
        /\ Cardinality(DOMAIN seen) <= 1
        /\ \A a, b \in DOMAIN seen : seen[a] = seen[b]

\* C17: the six aggregation weights sum to exactly 1.0, so six scores that
\* are all 1 give a weighted sum of exactly 1 before calibration (and so the
\* probability 0.7 * (1 - 0.1) = 0.63).
C17_WeightsSumToOne ==
    (pc = "aggregated" /\ \A a \in Analyzers : CappedScore(analyses, a) = One) =>
        /\ WeightedSum(analyses) = 100 * ScoreScale
        /\ 100 * score.morph_probability = 63 * ProbScale

\* calculate_morph_score has aggregated six scores of 1.0 or more, one of
\* them capped from 2.0
C17_Witness ==
    /\ pc = "aggregated"
    /\ \A a \in Analyzers : analyses[a][ScoreKey[a]] >= One
    /\ analyses.texture.texture_inconsistency = 2 * One
    /\ analyses.edge.edge_inconsistency = One
    /\ score.classification = "Possibly Morphed"

\* C18: /morph-detect answers 5xx whenever the detector returned
\* success:false; when the detector returned a report it answers 200 with
\* prediction, morph_probability, morph_percentage, real_percentage,
\* certainty, component_scores and detailed_analysis exactly as the detector
\* produced them; the 404 raised inside the handler for an unknown image id
\* reaches the client as a 404, not as a 500.
C18_EndpointPassThrough ==
    pc = "responded" =>
        /\ (result # None /\ ~result.success) =>
               response.status_code \in 500..599
        /\ (result # None /\ result.success) =>
               /\ response.status_code = 200
               /\ \A k \in {"prediction", "morph_probability", "morph_percentage",
                             "real_percentage", "certainty", "component_scores",
                             "detailed_analysis"} :
                      response.body[k] = result[k]
        /\ response.raised = 404 => response.status_code = 404
        /\ (result = None /\ morph_detector) => response.status_code \in {404, 500}

\* the file vanished between get_image_path and detect_morph's own check:
\* the detector answered success:false and the client got a 500
C18_Witness ==
    /\ pc = "responded"
    /\ changes > 0
    /\ result = NotFound
    /\ response.status_code = 500
    /\ response.detail = "Image not found"

\* the windows of side size at the origins r and q have a pixel in common
SharePixel(r, q, size) ==
    /\ r[1] - q[1] < size /\ q[1] - r[1] < size
    /\ r[2] - q[2] < size /\ q[2] - r[2] < size

\* no two regions that analyzer a produced share a pixel
Disjoint(a) ==
    LET size == region_size(a, seen[a].h, seen[a].w)
    IN  \A r, q \in regions[a] : r # q => ~SharePixel(r, q, size)

\* C19 as stated: no analyzer uses an overlapping partition; in every
\* analyzer the row and column stride equals the region size, so no two
\* regions of one analyzer share a pixel.
C19_NoOverlap ==
    Done =>
        \A a \in DOMAIN regions :
            /\ region_step(a, seen[a].h, seen[a].w) = region_size(a, seen[a].h, seen[a].w)
            /\ Disjoint(a)

\* C19 amended: the compression, edge, lighting, color and texture analyzers
\* step by their region size and no two of their regions share a pixel; the
\* noise analyzer steps by half its region size and each of its regions
\* shares pixels with its neighbours in the row and in the column.
C19_OnlyNoiseOverlaps ==
    Done =>
        \A a \in DOMAIN regions :
            LET size == region_size(a, seen[a].h, seen[a].w)
                step == region_step(a, seen[a].h, seen[a].w)
            IN  IF a = "noise"
                THEN /\ step = size \div 2
                     /\ \A r, q \in regions[a] :
                            (r[1] - q[1] \in {0, step} /\ r[2] - q[2] \in {0, step})
                                => SharePixel(r, q, size)
                ELSE /\ step = size
                     /\ Disjoint(a)

\* a finished call in which the noise analyzer and the edge analyzer each
\* produced several regions, two of the noise regions overlapping
C19_Witness ==
    /\ Done
    /\ {"noise", "edge", "compression"} \subseteq DOMAIN regions
    /\ Cardinality(regions.edge) > 1
    /\ Cardinality(regions.compression) > 1
    /\ \E r, q \in regions.noise :
           r # q /\ SharePixel(r, q, region_size("noise", seen.noise.h, seen.noise.w))

\* the mean or the spread that analyzer a reports is under the floor its code
\* compares it with (lighting, color and texture compare with none)
LowActivity(a) ==
    LET d == result.detailed_analysis[a]
    IN  CASE a = "compression" ->
                 FLt(d.compression_mean, 100) \/ FLt(d.compression_variance, 50)
          [] a = "noise" -> FLt(d.noise_variance_mean, 20)
          [] a = "edge" ->
                 FLt(d.edge_density_mean, 20) \/ FLt(d.edge_density_std, 10)
          [] OTHER -> FALSE

\* C20: each analyzer has a low-activity short-circuit: whenever the mean or
\* the spread of its per-region statistic is below the analyzer's floor, it
\* returns inconsistency 0.0 whatever the ratio of spread to mean.
C20_LowActivityShortCircuit ==
    (Success /\ Decodable /\ failed = {}) =>
        \A a \in Analyzers :
            LowActivity(a) => result.detailed_analysis[a][ScoreKey[a]] = 0

\* s is min(sqrt(num / den), 1) in score units, rounded down (den > 0)
IsDampedRatio(s, num, den) ==
    LET x == (ScoreScale * ScoreScale * num) \div den
    IN  IF x >= ScoreScale * ScoreScale THEN s = ScoreScale
        ELSE s * s <= x /\ x < (s + 1) * (s + 1)

\* s is min(d / k, 1) in score units, rounded down
IsFixedFraction(s, d, k) ==
    LET x == (ScoreScale * d) \div k
    IN  s = IF x >= ScoreScale THEN ScoreScale ELSE x

\* the compression, noise and edge dicts of a report whose analyzers all
\* computed on a non-empty partition
ThreeComputed ==
    /\ Success /\ Decodable /\ failed = {}
    /\ ~IsNaN(result.detailed_analysis.compression.compression_mean)
    /\ ~IsNaN(result.detailed_analysis.noise.noise_variance_mean)
    /\ ~IsNaN(result.detailed_analysis.edge.edge_density_mean)

\* C21 as stated: in the Compression, Noise and Edge analyzers, whenever the
\* short-circuit to 0 does not apply, the score is the damped ratio capped at
\* 1: 0.3*sqrt(variance/mean), 0.2*sqrt(std/mean), 0.25*sqrt(std/mean); no
\* input has its score computed from the dispersion alone.
C21_AlwaysDampedRatio ==
    ThreeComputed =>
        LET c == result.detailed_analysis.compression
            n == result.detailed_analysis.noise
            e == result.detailed_analysis.edge
        IN  /\ ~(c.compression_mean < 100 /\ c.compression_variance < 50) =>
                   IsDampedRatio(c.compression_inconsistency,
                                 9 * c.compression_variance, 100 * c.compression_mean)
            /\ ~(n.noise_variance_mean < 20) =>
                   IsDampedRatio(n.noise_inconsistency,
                                 n.noise_variance_std, 25 * n.noise_variance_mean)
            /\ ~(e.edge_density_mean < 20 \/ e.edge_density_std < 10) =>
                   IsDampedRatio(e.edge_inconsistency,
                                 e.edge_density_std, 16 * e.edge_density_mean)

\* C21 amended: when the short-circuit does not apply, the score is the
\* damped ratio capped at 1 only if the dispersion exceeds the analyzer's
\* threshold (variance > 2.0, std > 100, std > 0.05); at or below it the
\* score is the dispersion alone, scaled by a fixed factor (variance / 5,
\* std / 200, std / 0.1) and capped at 1, whatever the mean.
C21_DampedAboveThreshold ==
    ThreeComputed =>
        LET c == result.detailed_analysis.compression
            n == result.detailed_analysis.noise
            e == result.detailed_analysis.edge
        IN  /\ IF c.compression_mean < 100 /\ c.compression_variance < 50
               THEN c.compression_inconsistency = 0
               ELSE IF c.compression_variance > 200
               THEN IsDampedRatio(c.compression_inconsistency,
                                  9 * c.compression_variance, 100 * c.compression_mean)
               ELSE IsFixedFraction(c.compression_inconsistency,
                                    c.compression_variance, 500)
            /\ IF n.noise_variance_mean < 20
               THEN n.noise_inconsistency = 0
               ELSE IF n.noise_variance_std > 100
               THEN IsDampedRatio(n.noise_inconsistency,
                                  n.noise_variance_std, 25 * n.noise_variance_mean)
               ELSE IsFixedFraction(n.noise_inconsistency, n.noise_variance_std, 200)
            /\ IF e.edge_density_mean < 20 \/ e.edge_density_std < 10
               THEN e.edge_inconsistency = 0
               ELSE IF e.edge_density_std > 50
               THEN IsDampedRatio(e.edge_inconsistency,
                                  e.edge_density_std, 16 * e.edge_density_mean)
               ELSE IsFixedFraction(e.edge_inconsistency, e.edge_density_std, 100)

\* a report whose compression and edge scores come from the dispersion alone
\* and whose noise score is the damped ratio
C21_Witness ==
    /\ ThreeComputed
    /\ result.detailed_analysis.compression.compression_variance = 100
    /\ result.detailed_analysis.compression.compression_inconsistency = One \div 5
    /\ result.detailed_analysis.edge.edge_density_std = 40
    /\ 5 * result.detailed_analysis.edge.edge_inconsistency = 2 * One
    /\ result.detailed_analysis.noise.noise_variance_std = 400
    /\ 5 * result.detailed_analysis.noise.noise_inconsistency = 2 * One

C23_CertaintyBands ==
    Success =>
        LET p == score.morph_probability
        IN  result.certainty =
                IF 5 * p < ProbScale \/ 5 * p > 4 * ProbScale THEN "High"
                ELSE IF 20 * p < 7 * ProbScale \/ 20 * p > 13 * ProbScale THEN "Medium"
                ELSE "Low"

\* a report for p = 0.2, at distance exactly 0.3, labelled Medium
C23_Witness ==
    /\ Success
    /\ 5 * score.morph_probability = ProbScale
    /\ result.certainty = "Medium"

\* a report for p = 0.35, at distance exactly 0.15, labelled Low
C23_BoundaryLow ==
    /\ Success
    /\ 20 * score.morph_probability = 7 * ProbScale
    /\ result.certainty = "Low"

\* calculate_morph_score has returned for six scores in [0, 1]
ScoredInRange ==
    /\ pc \in {"aggregated", "done"}
    /\ score # None
    /\ \A a \in Analyzers :
           analyses[a][ScoreKey[a]] >= 0 /\ analyses[a][ScoreKey[a]] <= ScoreScale

\* C26: for every six scores in [0,1] the calibrated probability is at most
\* 0.63, so "Likely Morphed" is returned neither by calculate_morph_score nor
\* by detect_morph, and the certainty is High only for probabilities below
\* 0.2.
C26_NeverLikelyMorphed ==
    ScoredInRange =>
        /\ 100 * score.morph_probability <= 63 * ProbScale
        /\ score.classification # "Likely Morphed"
        /\ Done =>
               /\ result.success
               /\ result.prediction # "Likely Morphed"
               /\ result.certainty = "High" => 5 * score.morph_probability < ProbScale

\* a report for six scores of 1.0: probability 0.63, "Possibly Morphed"
C26_Witness ==
    /\ ScoredInRange /\ Done
    /\ \A a \in Analyzers : analyses[a][ScoreKey[a]] = ScoreScale
    /\ 100 * score.morph_probability = 63 * ProbScale
    /\ result.prediction = "Possibly Morphed"
    /\ result.certainty = "Low"

\* the analyzers whose score is not 0
Nonzero == {a \in Analyzers : analyses[a][ScoreKey[a]] # 0}

\* C28: when at most two of the six analyzers report a nonzero score the
\* verdict is "Real Photo" whatever the two scores are; "Possibly Morphed"
\* needs at least three nonzero analyzers and a weighted sum of at least
\* 0.1 + 0.3/0.7.
C28_TwoAnalyzersNeverEnough ==
    (pc \in {"aggregated", "done"} /\ score # None) =>
        /\ Cardinality(Nonzero) <= 2 => score.classification = "Real Photo"
        /\ score.classification = "Possibly Morphed" =>
               /\ Cardinality(Nonzero) >= 3
               /\ 7 * (SumOver(Analyzers) - 10 * ScoreScale) >= 3 * 100 * ScoreScale
        /\ Success => result.prediction = score.classification

\* edge and lighting, the two heaviest, at 2.0 and 1.0 and the rest at 0:
\* "Real Photo"; and the state reached from it
C28_Witness ==
    /\ pc = "aggregated"
    /\ Nonzero = {"edge", "lighting"}
    /\ analyses.edge.edge_inconsistency = 2 * ScoreScale
    /\ analyses.lighting.lighting_inconsistency = ScoreScale
    /\ score.classification = "Real Photo"

\* three analyzers at 1.0 and the rest at 0: "Possibly Morphed"
C28_ThreeSuffice ==
    /\ Success
    /\ Nonzero = {"edge", "lighting", "texture"}
    /\ score.classification = "Possibly Morphed"

\* the keys of each analyzer's dict
AnalyzerKeys ==
    [compression |-> {"compression_inconsistency", "compression_variance",
                      "compression_mean"},
     noise       |-> {"noise_inconsistency", "noise_variance_std",
                      "noise_variance_mean"},
     edge        |-> {"edge_inconsistency", "edge_density_std", "edge_density_mean"},
     lighting    |-> {"lighting_inconsistency", "lighting_variance_std",
                      "lighting_variance_mean", "gradient_mean"},
     color       |-> {"color_inconsistency", "hue_variance_std",
                      "saturation_variance_std", "value_variance_std"},
     texture     |-> {"texture_inconsistency", "texture_variance_std",
                      "texture_variance_mean"}]

\* C24: the aggregation fallback is unreachable from detect_morph: every
\* analyzer result, computed or substituted after a failure, carries its
\* inconsistency key within the same key set, so calculate_morph_score takes
\* its normal path (a failed analyzer contributes 0 %, not the fallback's
\* 10 %), and detect_morph returns success:false only for a missing input.
C24_FallbackUnreachable ==
    /\ \A a \in DOMAIN analyses :
           /\ DOMAIN analyses[a] = AnalyzerKeys[a]
           /\ ScoreKey[a] \in DOMAIN analyses[a]
    /\ pc = "score" => DOMAIN analyses = Analyzers
    /\ Done =>
           IF result.success
           THEN /\ DOMAIN result.detailed_analysis = Analyzers
                /\ \A a \in Analyzers :
                       LET c == score.component_scores[ComponentKey[a]]
                       IN  /\ a \in failed => c = 0
                           /\ IF IsNaN(Capped(a)) THEN IsNaN(c)
                              ELSE c = 100 * Capped(a)
           ELSE file.kind = "missing"

\* a report on a decodable image whose texture analyzer alone failed
C24_Witness ==
    /\ Success /\ Decodable
    /\ failed = {"texture"}
    /\ result.detailed_analysis.texture.texture_inconsistency = 0
    /\ result.component_scores.texture_irregularities = 0
    /\ result.component_scores.edge_irregularities > 0

\* C27: in every success report the prediction and the certainty agree with
\* the bands applied to the reported morph_probability, the probability
\* rounded to 3 decimals: below 0.3 "Real Photo", below 0.7 "Possibly
\* Morphed", else "Likely Morphed"; distance from 0.5 above 0.3 High, above
\* 0.15 Medium, else Low.
C27_LabelsMatchReportedProbability ==
    Success =>
        LET r == result.morph_probability
            distance == IF r >= 500 THEN r - 500 ELSE 500 - r
        IN  /\ result.prediction =
                   IF r < 300 THEN "Real Photo"
                   ELSE IF r < 700 THEN "Possibly Morphed"
                   ELSE "Likely Morphed"
            /\ result.certainty =
                   IF distance > 300 THEN "High"
                   ELSE IF distance > 150 THEN "Medium"
                   ELSE "Low"

\* C25: when the aggregation step fails (an analyzer result lacks its
\* inconsistency key, or the dict lacks an analyzer), calculate_morph_score
\* does not raise: it returns the fixed fallback, probability 0.1, "Real
\* Photo" and 10.0 for each of the six component percentages.
C25_AggregationFallback ==
    (pc = "aggregated"
       /\ \E a \in Analyzers :
              a \notin DOMAIN analyses \/ ScoreKey[a] \notin DOMAIN analyses[a]) =>
        /\ 10 * score.morph_probability = ProbScale
        /\ score.classification = "Real Photo"
        /\ DOMAIN score.component_scores =
               {"compression_artifacts", "noise_inconsistency", "edge_irregularities",
                "lighting_inconsistency", "color_inconsistency",
                "texture_irregularities"}
        /\ \A k \in DOMAIN score.component_scores :
               score.component_scores[k] = 10 * ScoreScale

\* calculate_morph_score has returned for a dict whose other five scores are
\* 1.0 and whose edge result has no edge_inconsistency
C25_Witness ==
    /\ pc = "aggregated"
    /\ DOMAIN analyses = Analyzers
    /\ DOMAIN analyses.edge = {}
    /\ \A a \in Analyzers \ {"edge"} : analyses[a][ScoreKey[a]] = ScoreScale
    /\ 10 * score.morph_probability = ProbScale

\* the verdict bands, lowest first
BandRank ==
    [c \in {"Real Photo", "Possibly Morphed", "Likely Morphed"} |->
        IF c = "Real Photo" THEN 0 ELSE IF c = "Possibly Morphed" THEN 1 ELSE 2]

\* C29: aggregation is monotone: if every one of the six scores of one input
\* is at most the corresponding score of another, its calibrated probability
\* is at most the other's and its verdict band is not higher.
C29_Monotone ==
    (pc = "aggregated" /\ Len(previous) > 0
       /\ \A a \in Analyzers :
              previous[1].analyses[a][ScoreKey[a]] <= analyses[a][ScoreKey[a]]) =>
        /\ previous[1].score.morph_probability <= score.morph_probability
        /\ BandRank[previous[1].score.classification] <= BandRank[score.classification]

\* two inputs that differ in the texture score alone, the lower one judged
\* "Real Photo" and the higher one "Possibly Morphed"
C29_Witness ==
    /\ pc = "aggregated" /\ Len(previous) > 0
    /\ \A a \in Analyzers \ {"texture"} : previous[1].analyses[a] = analyses[a]
    /\ previous[1].analyses.texture.texture_inconsistency
           < analyses.texture.texture_inconsistency
    /\ previous[1].score.morph_probability < score.morph_probability
    /\ previous[1].score.classification = "Real Photo"
    /\ score.classification = "Possibly Morphed"

\* get_image_path returned a path: the request was answered, neither with
\* the 404 nor with the 500 of an exception out of the lookup
ImageFound ==
    /\ pc = "responded"
    /\ response.raised # 404
    /\ response # Error(Exception)

\* C30: the value /health reports for components.morph_detector is fixed at
\* startup and agrees with /morph-detect: for an existing image id the
\* endpoint runs the real detector (detection_type "real" in its 200
\* response) exactly when /health reports true, and when the detector did
\* not initialise it answers 200 with the fixed simulated result
\* (detection_type "simulated", "Real Photo", 25.0 %), not an error.
C30_HealthAgreesWithEndpoint ==
    /\ \A k \in 1..Len(health) :
           /\ health[k].status_code = 200
           /\ health[k].body.components.morph_detector
                  = health[1].body.components.morph_detector
    /\ (ImageFound /\ Len(health) > 0) =>
           LET reported == health[1].body.components.morph_detector
           IN  /\ result # None <=> reported
               /\ response.status_code = 200 =>
                      (response.body.detection_type = "real" <=> reported)
               /\ ~reported =>
                      /\ response.status_code = 200
                      /\ response.body.success
                      /\ response.body.detection_type = "simulated"
                      /\ response.body.prediction = "Real Photo"
                      /\ response.body.morph_probability = 250
                      /\ response.body.morph_percentage = 250
                      /\ response.body.real_percentage = 750
                      /\ response.body.certainty = "Medium"

\* /health answered false before the request and after it, and the request,
\* for an image that exists, was answered with the simulated result
C30_Witness ==
    /\ ImageFound
    /\ file.kind = "image"
    /\ Len(health) = 2
    /\ ~health[1].body.components.morph_detector
    /\ ~health[2].body.components.morph_detector
    /\ response.status_code = 200
    /\ response.body.detection_type = "simulated"
    /\ result = None

\* /health answered true and the detector's report came back as "real"
C30_RealWhenAvailable ==
    /\ ImageFound
    /\ Len(health) = 2
    /\ health[1].body.components.morph_detector
    /\ response.status_code = 200
    /\ response.body.detection_type = "real"

====
